---- MODULE Spec2Model ----
(***************************************************************************)
(* A model of dizoo/overcooked/models/overcooked_vac.py: the convolutional *)
(* encoder ConvEncoder and the actor-critic model VAC.                     *)
(*                                                                         *)
(* Tensors are modelled by their shape and by a symbolic value: the chain  *)
(* of module instances applied to the input, outermost first.  Two tensors *)
(* are equal when the same instances (hence the same parameters) were      *)
(* applied in the same order to the same input.                            *)
(***************************************************************************)
EXTENDS Integers, Sequences, FiniteSets, TLC

VARIABLES
    conv_args,  \* arguments of the ConvEncoder(...) call
    conv,       \* the ConvEncoder object and the outcome of the last operation on it
    args,       \* arguments of the VAC(...) call
    phase,      \* "none" before VAC(...), then "built" or "failed"
    err,        \* outcome of the last operation on the VAC object
    self,       \* the VAC object's attributes
    last,       \* the last forward call: mode, input, method called, result, trace
    first       \* the first forward call made on the object, kept for comparison

vars == <<conv_args, conv, args, phase, err, self, last, first>>

(***************************************************************************)
(* Bounds of the model                                                     *)
(***************************************************************************)
MaxHidden == 6      \* longest hidden-size list given to ConvEncoder
MaxRank == 4        \* highest rank of an observation shape given to VAC
MaxBatch == 2       \* largest batch size B of an input

Widths == {2, 4}    \* layer widths drawn for hidden sizes
Dims == {1, 2}      \* sizes drawn for the dimensions of an image observation

(***************************************************************************)
(* Outcomes                                                                *)
(***************************************************************************)
OK == "ok"
ErrObsShape == "RuntimeError: not support obs_shape for pre-defined encoder"
ErrMode == "AssertionError: not support forward mode"
ErrSameHidden == "AssertionError: Please indicate the same hidden size for res block parts"
ErrIndex == "IndexError"
ErrShape == "RuntimeError: shape mismatch"
ErrType == "TypeError"
ErrAttribute == "AttributeError"

(***************************************************************************)
(* Helpers on sequences                                                    *)
(***************************************************************************)
RECURSIVE Product(_)
Product(s) == IF s = <<>> THEN 1 ELSE Head(s) * Product(Tail(s))

SeqsUpTo(S, lo, hi) == UNION {[1..n -> S] : n \in lo..hi}

(***************************************************************************)
(* Layers of the framework (torch.nn, ding.torch_utils)                    *)
(***************************************************************************)
Layer(type, a, b, k, s) == [type |-> type, a |-> a, b |-> b, k |-> k, s |-> s]
Conv2d(in, out, k, s) == Layer("Conv2d", in, out, k, s)
Act == Layer("act", 0, 0, 0, 0)
ResBlock(ch) == Layer("ResBlock", ch, ch, 3, 1)
Flatten == Layer("Flatten", 0, 0, 0, 0)
Linear(in, out) == Layer("Linear", in, out, 0, 0)

NoShape == <<0>>    \* marks a forward pass the framework rejected

\* The shape a layer gives to an input of shape sh (batch first).
LayerShape(l, sh) ==
    IF sh = NoShape THEN NoShape
    ELSE CASE l.type = "Conv2d" ->
                IF Len(sh) = 4 /\ sh[2] = l.a /\ sh[3] >= l.k /\ sh[4] >= l.k
                THEN <<sh[1], l.b, (sh[3] - l.k) \div l.s + 1, (sh[4] - l.k) \div l.s + 1>>
                ELSE NoShape
           [] l.type = "ResBlock" ->
                IF Len(sh) = 4 /\ sh[2] = l.a THEN sh ELSE NoShape
           [] l.type = "Flatten" ->
                IF Len(sh) >= 2 THEN <<sh[1], Product(Tail(sh))>> ELSE sh
           [] l.type = "Linear" ->
                IF Len(sh) >= 1 /\ sh[Len(sh)] = l.a
                THEN [i \in 1..Len(sh) |-> IF i = Len(sh) THEN l.b ELSE sh[i]]
                ELSE NoShape
           [] OTHER -> sh

RECURSIVE RunLayers(_, _)
RunLayers(layers, sh) ==
    IF layers = <<>> THEN sh
    ELSE RunLayers(Tail(layers), LayerShape(Head(layers), sh))

(***************************************************************************)
(* Tensors                                                                 *)
(***************************************************************************)
Tensor(shape, val) == [shape |-> shape, val |-> val]
\* torch.randn(B, *obs_dims): a batch of B observations
Input(B, obs_dims) == Tensor(<<B>> \o obs_dims, <<"x">>)

(***************************************************************************)
(* ConvEncoder                                                             *)
(***************************************************************************)
SelfHiddenSizeList == <<4, 4, 4>>
KernelSize == <<1, 1, 1>>
Stride == <<1, 1, 1>>

NoModule == [cls |-> "none", obs |-> <<>>, insize |-> 0, out |-> <<>>,
             main |-> <<>>, mid |-> Act, hidden_size_list |-> <<>>]

\* the three convolutions, each followed by the activation
ConvLayers(in_channel, hidden_size_list) ==
    [j \in 1..(2 * Len(KernelSize)) |->
        IF j % 2 = 0 THEN Act
        ELSE LET i == (j + 1) \div 2
             IN Conv2d(IF i = 1 THEN in_channel ELSE hidden_size_list[i - 1],
                       hidden_size_list[i], KernelSize[i], Stride[i])]

\* set(hidden_size_list[3:-1])
ResPartSizesToEnd(hidden_size_list) ==
    {hidden_size_list[i] : i \in 4..Len(hidden_size_list)}
ResPartSizes(hidden_size_list) ==
    {hidden_size_list[i] : i \in 4..(Len(hidden_size_list) - 1)}

\* for i in range(3, len(self.hidden_size_list) - 1): ResBlock(self.hidden_size_list[i])
ResLayers(self_hidden_size_list) ==
    [j \in 1..(Len(self_hidden_size_list) - 1 - 3) |-> ResBlock(self_hidden_size_list[j + 3])]

\* _get_flatten_size: the width after self.main of one random observation
GetFlattenSize(main, obs_shape) ==
    LET out == RunLayers(main, <<1>> \o obs_shape)
    IN IF out = NoShape \/ Len(out) < 2 THEN 0 ELSE out[2]

ConvFail(e) == [err |-> e, mod |-> NoModule]

ConvEncoderInit(obs_shape, hidden_size_list) ==
    IF Len(obs_shape) = 0 \/ Len(hidden_size_list) < Len(KernelSize)
    THEN ConvFail(ErrIndex)
    ELSE IF Cardinality(ResPartSizes(hidden_size_list)) > 1
    THEN ConvFail(ErrSameHidden)
    ELSE LET main == ConvLayers(obs_shape[1], hidden_size_list)
                     \o ResLayers(SelfHiddenSizeList) \o <<Flatten>>
             flatten_size == GetFlattenSize(main, obs_shape)
         IN IF flatten_size = 0 THEN ConvFail(ErrShape)
            ELSE [err |-> OK,
                  mod |-> [cls |-> "ConvEncoder", obs |-> obs_shape, insize |-> obs_shape[1],
                           out |-> <<hidden_size_list[Len(hidden_size_list)]>>,
                           main |-> main,
                           mid |-> Linear(flatten_size, hidden_size_list[Len(hidden_size_list)]),
                           hidden_size_list |-> SelfHiddenSizeList]]

\* ConvEncoder.forward: x.float(), self.main, self.mid
ConvEncoderForward(m, name, x) ==
    LET sh == LayerShape(m.mid, RunLayers(m.main, x.shape))
    IN IF sh = NoShape THEN [err |-> ErrShape, out |-> Tensor(NoShape, <<>>)]
       ELSE [err |-> OK, out |-> Tensor(sh, <<name>> \o x.val)]

ConvObsShapes == [1..3 -> Dims]
ConvHiddenLists == SeqsUpTo(Widths, 0, MaxHidden)

NoTensor == Tensor(NoShape, <<>>)
ConvInit0 == [phase |-> "none", err |-> "none", mod |-> NoModule, x |-> NoTensor, out |-> NoTensor]
NoArgs == [obs_shape |-> <<>>, hidden_size_list |-> <<>>]

ConvEncoderNew ==
    /\ conv.phase = "none"
    /\ \E o \in ConvObsShapes, h \in ConvHiddenLists :
          LET r == ConvEncoderInit(o, h)
          IN /\ conv_args' = [obs_shape |-> o, hidden_size_list |-> h]
             /\ conv' = [conv EXCEPT !.phase = IF r.err = OK THEN "built" ELSE "failed",
                                     !.err = r.err, !.mod = r.mod]
    /\ UNCHANGED <<args, phase, err, self, last, first>>

ConvEncoderCall ==
    /\ conv.phase = "built"
    /\ \E B \in 1..MaxBatch :
          LET x == Input(B, conv.mod.obs)
              r == ConvEncoderForward(conv.mod, "conv", x)
          IN conv' = [conv EXCEPT !.err = r.err, !.x = x, !.out = r.out]
    /\ UNCHANGED <<conv_args, args, phase, err, self, last, first>>

(***************************************************************************)
(* Shapes given as arguments: an int, or a list of ints                    *)
(***************************************************************************)
IntShape(n) == [isint |-> TRUE, dims |-> <<n>>]
ListShape(d) == [isint |-> FALSE, dims |-> d]

\* ding.utils.squeeze: a list of one element becomes that element
squeeze(data) ==
    IF ~data.isint /\ Len(data.dims) = 1 THEN IntShape(data.dims[1]) ELSE data

(***************************************************************************)
(* Values and result dictionaries                                          *)
(***************************************************************************)
NoValue == [kind |-> "none", items |-> <<>>]
TensorV(t) == [kind |-> "tensor", items |-> <<t>>]
ListV(ts) == [kind |-> "list", items |-> ts]

EmptyDict == [keys |-> {}, logit |-> NoValue, value |-> NoValue, mu |-> NoValue,
              sigma |-> NoValue, pred |-> NoValue]

(***************************************************************************)
(* Encoders and heads of ding.model.common                                 *)
(***************************************************************************)
\* FCEncoder(obs_shape, hidden_size_list): a linear layer per hidden size
FCEncoderInit(obs, hidden_size_list) ==
    IF Len(hidden_size_list) = 0 THEN [err |-> ErrIndex, mod |-> NoModule]
    ELSE [err |-> OK,
          mod |-> [cls |-> "FCEncoder", obs |-> <<obs>>, insize |-> obs,
                   out |-> <<hidden_size_list[Len(hidden_size_list)]>>,
                   main |-> [j \in 1..(2 * Len(hidden_size_list)) |->
                               IF j % 2 = 0 THEN Act
                               ELSE LET i == (j + 1) \div 2
                                    IN Linear(IF i = 1 THEN obs ELSE hidden_size_list[i - 1],
                                              hidden_size_list[i])],
                   mid |-> Act,
                   hidden_size_list |-> hidden_size_list]]

FCEncoderForward(m, name, x) ==
    LET sh == RunLayers(m.main, x.shape)
    IN IF sh = NoShape THEN [err |-> ErrShape, out |-> NoTensor]
       ELSE [err |-> OK, out |-> Tensor(sh, <<name>> \o x.val)]

HeadModule(cls, hidden_size, output) ==
    [cls |-> cls, obs |-> <<>>, insize |-> hidden_size, out |-> output,
     main |-> <<>>, mid |-> Act, hidden_size_list |-> <<>>]

\* the output of one linear head of width n on an embedding e: (B, n)
HeadTensor(name, key, e, n) ==
    Tensor([i \in 1..Len(e.shape) |-> IF i = Len(e.shape) THEN n ELSE e.shape[i]],
           <<name, key>> \o e.val)

\* RegressionHead squeezes a last dimension of size 1
SqueezeLast(t) ==
    IF Len(t.shape) > 1 /\ t.shape[Len(t.shape)] = 1
    THEN Tensor(SubSeq(t.shape, 1, Len(t.shape) - 1), t.val) ELSE t

HeadForward(m, name, e) ==
    IF Len(e.shape) = 0 \/ e.shape[Len(e.shape)] # m.insize
    THEN [err |-> ErrShape, dict |-> EmptyDict]
    ELSE CASE m.cls = "RegressionHead" ->
                [err |-> OK,
                 dict |-> [EmptyDict EXCEPT !.keys = {"pred"},
                              !.pred = TensorV(SqueezeLast(HeadTensor(name, "pred", e, m.out[1])))]]
           [] m.cls = "DiscreteHead" ->
                [err |-> OK,
                 dict |-> [EmptyDict EXCEPT !.keys = {"logit"},
                              !.logit = TensorV(HeadTensor(name, "logit", e, m.out[1]))]]
           [] m.cls = "MultiHead" ->
                [err |-> OK,
                 dict |-> [EmptyDict EXCEPT !.keys = {"logit"},
                              !.logit = ListV([i \in 1..Len(m.out) |->
                                  HeadTensor(name, <<"logit0", "logit1", "logit2", "logit3">>[i],
                                             e, m.out[i])])]]
           [] m.cls = "ReparameterizationHead" ->
                [err |-> OK,
                 dict |-> [EmptyDict EXCEPT !.keys = {"mu", "sigma"},
                              !.mu = TensorV(HeadTensor(name, "mu", e, m.out[1])),
                              !.sigma = TensorV(HeadTensor(name, "sigma", e, m.out[1]))]]

(***************************************************************************)
(* VAC.__init__                                                            *)
(***************************************************************************)
VACMode == <<"compute_actor", "compute_critic", "compute_actor_critic">>

NoModules == [encoder |-> NoModule, actor_encoder |-> NoModule, critic_encoder |-> NoModule,
              critic_head |-> NoModule, actor_head |-> NoModule]

\* the object right after nn.Module.__init__: no attribute of VAC set yet
NoSelf == [attrs |-> {}, obs_shape |-> IntShape(0), action_shape |-> IntShape(0),
           share_encoder |-> FALSE, continuous |-> FALSE, multi_head |-> FALSE,
           mode |-> VACMode, modules |-> NoModules, actor |-> <<>>, critic |-> <<>>]

\* the encoder class for a squeezed observation shape; "none" when unsupported
EncoderClsRank2Conv(obs_shape) ==
    IF obs_shape.isint \/ Len(obs_shape.dims) = 1 THEN "FCEncoder"
    ELSE IF Len(obs_shape.dims) \in {2, 3} THEN "ConvEncoder"
    ELSE "none"
EncoderCls(obs_shape) ==
    IF obs_shape.isint \/ Len(obs_shape.dims) = 1 THEN "FCEncoder"
    ELSE IF Len(obs_shape.dims) = 3 THEN "ConvEncoder"
    ELSE "none"

\* encoder_cls(obs_shape, encoder_hidden_size_list, ...)
EncoderNew(encoder_cls, obs_shape, hidden_size_list) ==
    IF encoder_cls = "FCEncoder"
    THEN FCEncoderInit(obs_shape.dims[1], hidden_size_list)
    ELSE ConvEncoderInit(obs_shape.dims, hidden_size_list)

\* RegressionHead(critic_head_hidden_size, 1, ...)
CriticHeadTwoOutputs(critic_head_hidden_size) ==
    HeadModule("RegressionHead", critic_head_hidden_size, <<2>>)
CriticHeadNew(critic_head_hidden_size) ==
    HeadModule("RegressionHead", critic_head_hidden_size, <<1>>)

\* the actor head: ReparameterizationHead, MultiHead or DiscreteHead
ActorHeadHiddenOut(continuous, actor_head_hidden_size, action_shape) ==
    [err |-> OK,
     mod |-> HeadModule(IF continuous THEN "ReparameterizationHead" ELSE "DiscreteHead",
                        actor_head_hidden_size, <<actor_head_hidden_size>>)]
ActorHeadNew(continuous, actor_head_hidden_size, action_shape) ==
    IF continuous
    THEN IF action_shape.isint
         THEN [err |-> OK,
               mod |-> HeadModule("ReparameterizationHead", actor_head_hidden_size,
                                  action_shape.dims)]
         ELSE [err |-> ErrType, mod |-> NoModule]
    ELSE IF ~action_shape.isint
         THEN [err |-> OK,
               mod |-> HeadModule("MultiHead", actor_head_hidden_size, action_shape.dims)]
         ELSE [err |-> OK,
               mod |-> HeadModule("DiscreteHead", actor_head_hidden_size, action_shape.dims)]

VACInit(a) ==
    LET obs_shape == squeeze(a.obs_shape)
        action_shape == squeeze(a.action_shape)
        s0 == [NoSelf EXCEPT !.attrs = {"obs_shape", "action_shape"},
                             !.obs_shape = obs_shape, !.action_shape = action_shape]
        encoder_cls == EncoderCls(obs_shape)
    IN IF encoder_cls = "none" THEN [err |-> ErrObsShape, self |-> s0]
       ELSE
       LET s1 == [s0 EXCEPT !.attrs = @ \cup {"share_encoder"},
                            !.share_encoder = a.share_encoder]
           enc == EncoderNew(encoder_cls, obs_shape, a.encoder_hidden_size_list)
       IN IF enc.err # OK THEN [err |-> enc.err, self |-> s1]
          ELSE
          LET s2 == IF a.share_encoder
                    THEN [s1 EXCEPT !.attrs = @ \cup {"encoder"},
                                    !.modules.encoder = enc.mod]
                    ELSE [s1 EXCEPT !.attrs = @ \cup {"actor_encoder", "critic_encoder"},
                                    !.modules.actor_encoder = enc.mod,
                                    !.modules.critic_encoder = enc.mod]
              s3 == [s2 EXCEPT !.attrs = @ \cup {"critic_head", "continuous", "multi_head"},
                               !.modules.critic_head = CriticHeadNew(a.critic_head_hidden_size),
                               !.continuous = a.continuous,
                               !.multi_head = IF a.continuous THEN FALSE
                                              ELSE ~action_shape.isint]
              head == ActorHeadNew(a.continuous, a.actor_head_hidden_size, action_shape)
          IN IF head.err # OK THEN [err |-> head.err, self |-> s3]
             ELSE [err |-> OK,
                   self |-> [s3 EXCEPT
                       !.attrs = @ \cup {"actor_head", "actor", "critic"},
                       !.modules.actor_head = head.mod,
                       !.actor = IF a.share_encoder THEN <<"encoder", "actor_head">>
                                 ELSE <<"actor_encoder", "actor_head">>,
                       !.critic = IF a.share_encoder THEN <<"encoder", "critic_head">>
                                  ELSE <<"critic_encoder", "critic_head">>]]

(***************************************************************************)
(* VAC.compute_actor, compute_critic, compute_actor_critic                 *)
(***************************************************************************)
Invoke(name, x) == [mod |-> name, input |-> x]

\* self.<name>(x) for an encoder attribute
EncoderCall(s, name, x) ==
    IF s.modules[name].cls = "ConvEncoder"
    THEN ConvEncoderForward(s.modules[name], name, x)
    ELSE FCEncoderForward(s.modules[name], name, x)

\* whether self.<name> is set; reading an attribute that is not raises AttributeError
Has(s, name) == name \in s.attrs

Raise(e, trace) == [err |-> e, result |-> EmptyDict, trace |-> trace]
Return(d, trace) == [err |-> OK, result |-> d, trace |-> trace]

\* a variant that returns the head's output as it is, also when continuous
compute_actor_raw(s, x) ==
    LET enc == IF s.share_encoder THEN "encoder" ELSE "actor_encoder"
        e == EncoderCall(s, enc, x)
        h == HeadForward(s.modules.actor_head, "actor_head", e.out)
        t1 == <<Invoke(enc, x)>>
        t2 == Append(t1, Invoke("actor_head", e.out))
    IN IF ~Has(s, "share_encoder") \/ ~Has(s, enc) THEN Raise(ErrAttribute, <<>>)
       ELSE IF e.err # OK THEN Raise(e.err, t1)
       ELSE IF ~Has(s, "actor_head") THEN Raise(ErrAttribute, t1)
       ELSE IF h.err # OK THEN Raise(h.err, t2)
       ELSE Return(h.dict, t2)

compute_actor(s, x) ==
    LET enc == IF s.share_encoder THEN "encoder" ELSE "actor_encoder"
        e == EncoderCall(s, enc, x)
        h == HeadForward(s.modules.actor_head, "actor_head", e.out)
        t1 == <<Invoke(enc, x)>>
        t2 == Append(t1, Invoke("actor_head", e.out))
    IN IF ~Has(s, "share_encoder") \/ ~Has(s, enc) THEN Raise(ErrAttribute, <<>>)
       ELSE IF e.err # OK THEN Raise(e.err, t1)
       ELSE IF ~Has(s, "actor_head") THEN Raise(ErrAttribute, t1)
       ELSE IF h.err # OK THEN Raise(h.err, t2)
       ELSE IF ~Has(s, "continuous") THEN Raise(ErrAttribute, t2)
       ELSE IF s.continuous
            THEN Return([EmptyDict EXCEPT !.keys = {"logit"},
                            !.logit = ListV(<<h.dict.mu.items[1], h.dict.sigma.items[1]>>)], t2)
            ELSE Return(h.dict, t2)

compute_critic(s, x) ==
    LET enc == IF s.share_encoder THEN "encoder" ELSE "critic_encoder"
        e == EncoderCall(s, enc, x)
        h == HeadForward(s.modules.critic_head, "critic_head", e.out)
        t1 == <<Invoke(enc, x)>>
        t2 == Append(t1, Invoke("critic_head", e.out))
    IN IF ~Has(s, "share_encoder") \/ ~Has(s, enc) THEN Raise(ErrAttribute, <<>>)
       ELSE IF e.err # OK THEN Raise(e.err, t1)
       ELSE IF ~Has(s, "critic_head") THEN Raise(ErrAttribute, t1)
       ELSE IF h.err # OK THEN Raise(h.err, t2)
       ELSE Return([EmptyDict EXCEPT !.keys = {"value"}, !.value = h.dict.pred], t2)

\* a variant that runs each path on its own, as compute_critic then compute_actor
compute_actor_critic_separately(s, x) ==
    LET c == compute_critic(s, x)
        a == compute_actor(s, x)
    IN IF c.err # OK THEN c
       ELSE IF a.err # OK THEN Raise(a.err, c.trace \o a.trace)
       ELSE Return([EmptyDict EXCEPT !.keys = {"logit", "value"},
                       !.logit = a.result.logit, !.value = c.result.value],
                   c.trace \o a.trace)

\* a variant whose heads are fed the other path's embedding
compute_actor_critic_crossed(s, x) ==
    LET ea == EncoderCall(s, IF s.share_encoder THEN "encoder" ELSE "critic_encoder", x)
        ec == EncoderCall(s, IF s.share_encoder THEN "encoder" ELSE "actor_encoder", x)
        t1 == IF s.share_encoder THEN <<Invoke("encoder", x)>>
              ELSE <<Invoke("actor_encoder", x), Invoke("critic_encoder", x)>>
        value == HeadForward(s.modules.critic_head, "critic_head", ec.out)
        t2 == Append(t1, Invoke("critic_head", ec.out))
        actor_output == HeadForward(s.modules.actor_head, "actor_head", ea.out)
        t3 == Append(t2, Invoke("actor_head", ea.out))
    IN IF ea.err # OK THEN Raise(ea.err, t1)
       ELSE IF value.err # OK THEN Raise(value.err, t2)
       ELSE IF actor_output.err # OK THEN Raise(actor_output.err, t3)
       ELSE Return([EmptyDict EXCEPT !.keys = {"logit", "value"},
                       !.logit = IF s.continuous
                                 THEN ListV(<<actor_output.dict.mu.items[1],
                                              actor_output.dict.sigma.items[1]>>)
                                 ELSE actor_output.dict.logit,
                       !.value = value.dict.pred], t3)

compute_actor_critic(s, x) ==
    LET ea == EncoderCall(s, IF s.share_encoder THEN "encoder" ELSE "actor_encoder", x)
        ec == IF s.share_encoder THEN ea ELSE EncoderCall(s, "critic_encoder", x)
        t0 == <<Invoke(IF s.share_encoder THEN "encoder" ELSE "actor_encoder", x)>>
        t1 == IF s.share_encoder THEN t0 ELSE Append(t0, Invoke("critic_encoder", x))
        value == HeadForward(s.modules.critic_head, "critic_head", ec.out)
        t2 == Append(t1, Invoke("critic_head", ec.out))
        actor_output == HeadForward(s.modules.actor_head, "actor_head", ea.out)
        t3 == Append(t2, Invoke("actor_head", ea.out))
    IN IF ~Has(s, "share_encoder") THEN Raise(ErrAttribute, <<>>)
       ELSE IF ~Has(s, IF s.share_encoder THEN "encoder" ELSE "actor_encoder")
       THEN Raise(ErrAttribute, <<>>)
       ELSE IF ea.err # OK THEN Raise(ea.err, t0)
       ELSE IF ~s.share_encoder /\ ~Has(s, "critic_encoder") THEN Raise(ErrAttribute, t0)
       ELSE IF ec.err # OK THEN Raise(ec.err, t1)
       ELSE IF ~Has(s, "critic_head") THEN Raise(ErrAttribute, t1)
       ELSE IF value.err # OK THEN Raise(value.err, t2)
       ELSE IF ~Has(s, "actor_head") THEN Raise(ErrAttribute, t2)
       ELSE IF actor_output.err # OK THEN Raise(actor_output.err, t3)
       ELSE IF ~Has(s, "continuous") THEN Raise(ErrAttribute, t3)
       ELSE Return([EmptyDict EXCEPT !.keys = {"logit", "value"},
                       !.logit = IF s.continuous
                                 THEN ListV(<<actor_output.dict.mu.items[1],
                                              actor_output.dict.sigma.items[1]>>)
                                 ELSE actor_output.dict.logit,
                       !.value = value.dict.pred], t3)

(***************************************************************************)
(* VAC.forward                                                             *)
(***************************************************************************)
Range(f) == {f[i] : i \in DOMAIN f}

NoMsg == [mode |-> "", allowed |-> <<>>]

Called(name, r, s) ==
    [err |-> r.err, msg |-> NoMsg, called |-> name, result |-> r.result,
     trace |-> r.trace, self |-> s]

\* a variant that looks up the other single-path method
GetattrCallSwapped(s, name, inputs) ==
    CASE name = "compute_actor" -> Called("compute_critic", compute_critic(s, inputs), s)
      [] name = "compute_critic" -> Called("compute_actor", compute_actor(s, inputs), s)
      [] name = "compute_actor_critic" ->
            Called("compute_actor_critic", compute_actor_critic(s, inputs), s)

\* getattr(self, mode)(inputs), for a mode that passed the check of forward:
\* one of the three compute methods.  No other name reaches this call.
GetattrCall(s, name, inputs) ==
    CASE name = "compute_actor" -> Called("compute_actor", compute_actor(s, inputs), s)
      [] name = "compute_critic" -> Called("compute_critic", compute_critic(s, inputs), s)
      [] name = "compute_actor_critic" ->
            Called("compute_actor_critic", compute_actor_critic(s, inputs), s)

\* a variant that stores the shape of the last input on the object
forward_remembering(s, inputs, mode) ==
    IF mode \notin Range(s.mode)
    THEN [err |-> ErrMode, msg |-> [mode |-> mode, allowed |-> s.mode], called |-> "none",
          result |-> EmptyDict, trace |-> <<>>, self |-> s]
    ELSE [GetattrCall(s, mode, inputs) EXCEPT !.self.obs_shape = ListShape(Tail(inputs.shape))]

forward(s, inputs, mode) ==
    IF mode \notin Range(s.mode)
    THEN [err |-> ErrMode, msg |-> [mode |-> mode, allowed |-> s.mode], called |-> "none",
          result |-> EmptyDict, trace |-> <<>>, self |-> s]
    ELSE GetattrCall(s, mode, inputs)

(***************************************************************************)
(* Inputs drawn                                                            *)
(***************************************************************************)
ObsSizes == {2}
ObsShapeArgs ==
    {IntShape(n) : n \in ObsSizes} \cup {ListShape(d) : d \in SeqsUpTo(ObsSizes, 0, MaxRank)}
ActionShapeArgs == {IntShape(3), ListShape(<<3>>), ListShape(<<2, 3>>)}
EncoderHiddenLists == {<<4, 4, 4>>, <<4, 4, 2>>, <<4, 4, 4, 2, 4, 4>>}
OtherModes == {"forward", "compute_q"}
ModeArgs == Range(VACMode) \cup OtherModes

VACArgs ==
    [obs_shape : ObsShapeArgs, action_shape : ActionShapeArgs,
     share_encoder : BOOLEAN, continuous : BOOLEAN,
     encoder_hidden_size_list : EncoderHiddenLists,
     actor_head_hidden_size : Widths, critic_head_hidden_size : Widths]

NoVACArgs ==
    [obs_shape |-> IntShape(0), action_shape |-> IntShape(0),
     share_encoder |-> FALSE, continuous |-> FALSE,
     encoder_hidden_size_list |-> <<>>,
     actor_head_hidden_size |-> 0, critic_head_hidden_size |-> 0]

NoCall == [mode |-> "none", x |-> NoTensor, batch |-> 0, err |-> "none", msg |-> NoMsg,
           called |-> "none",
           result |-> EmptyDict, trace |-> <<>>]

(***************************************************************************)
(* Actions                                                                 *)
(***************************************************************************)
Init ==
    /\ conv_args = NoArgs
    /\ conv = ConvInit0
    /\ args = NoVACArgs
    /\ phase = "none"
    /\ err = "none"
    /\ self = NoSelf
    /\ last = NoCall
    /\ first = NoCall

\* model = VAC(obs_shape, action_shape, ...)
VACNew ==
    /\ phase = "none"
    /\ \E a \in VACArgs :
          LET r == VACInit(a)
          IN /\ args' = a
             /\ phase' = IF r.err = OK THEN "built" ELSE "failed"
             /\ err' = r.err
             /\ self' = r.self
    /\ UNCHANGED <<conv_args, conv, last, first>>

\* model(inputs, mode)
Forward ==
    /\ phase = "built"
    /\ \E mode \in ModeArgs, B \in 1..MaxBatch :
          LET x == Input(B, self.obs_shape.dims)
              r == forward(self, x, mode)
              call == [mode |-> mode, x |-> x, batch |-> B, err |-> r.err, msg |-> r.msg,
                       called |-> r.called, result |-> r.result, trace |-> r.trace]
          IN /\ self' = r.self
             /\ err' = r.err
             /\ last' = call
             /\ first' = IF first.mode = "none" THEN call ELSE first
    /\ UNCHANGED <<conv_args, conv, args, phase>>

Next == VACNew \/ Forward
Spec == Init /\ [][Next]_vars

NextConv == ConvEncoderNew \/ ConvEncoderCall
SpecConv == Init /\ [][NextConv]_vars

(***************************************************************************)
(* Properties of ConvEncoder, checked under SpecConv                       *)
(***************************************************************************)
NumRes(main) == Cardinality({i \in DOMAIN main : main[i].type = "ResBlock"})

\* C8: a ConvEncoder built with a hidden-size list of more than three entries
\* holds one residual block per hidden size between the third and the last
\* entry, placed after the three convolutions, and none for three entries; it
\* ends with a flatten and a linear projection to the last hidden size.
C8_ResBlocksPerHiddenSize ==
    conv.phase = "built" =>
        LET hs == conv_args.hidden_size_list
            main == conv.mod.main
        IN /\ NumRes(main) = (IF Len(hs) > 3 THEN Len(hs) - 4 ELSE 0)
           /\ \A i \in DOMAIN main : main[i].type = "ResBlock" => i > 2 * Len(KernelSize)
           /\ main[Len(main)].type = "Flatten"
           /\ conv.mod.mid.type = "Linear" /\ conv.mod.mid.b = hs[Len(hs)]

\* C9: construction fails with the same-hidden-size assertion exactly when the
\* entries of the given list from the fourth to the second-to-last are not all
\* equal; a list whose entries there are all equal, or that has none, is built.
C9_SameHiddenSizeAssertion ==
    LET hs == conv_args.hidden_size_list
        differ == \E i, j \in 4..(Len(hs) - 1) : hs[i] # hs[j]
    IN /\ conv.phase = "failed" => (conv.err = ErrSameHidden <=> differ)
       /\ conv.phase = "built" => ~differ
       /\ (conv.phase # "none" /\ ~differ /\ Len(hs) >= Len(KernelSize)) => conv.phase = "built"

C9_Witness ==
    /\ conv.phase = "failed" /\ conv.err = ErrSameHidden
    /\ Len(conv_args.hidden_size_list) = 6

(***************************************************************************)
(* Properties of VAC, checked under Spec                                   *)
(***************************************************************************)
EncoderNames == {"encoder", "actor_encoder", "critic_encoder"}
HeadNames == {"actor_head", "critic_head"}
Count(trace, name) == Cardinality({i \in DOMAIN trace : trace[i].mod = name})
LastOf(sh) == sh[Len(sh)]

\* C1: an int or rank-1 observation shape selects FCEncoder, a rank-3 shape
\* ConvEncoder, and every other rank fails with the unsupported-observation-shape
\* error before any encoder or head exists.
C1_EncoderByRank ==
    phase # "none" =>
        LET o == args.obs_shape
            flat == o.isint \/ Len(o.dims) = 1
            image == ~o.isint /\ Len(o.dims) = 3
            built == {n \in EncoderNames : self.modules[n].cls # "none"}
        IN /\ (err = ErrObsShape /\ phase = "failed") <=> ~(flat \/ image)
           /\ ~(flat \/ image) =>
                 /\ self.modules = NoModules
                 /\ self.attrs = {"obs_shape", "action_shape"}
           /\ flat => \A n \in built : self.modules[n].cls = "FCEncoder"
           /\ image => \A n \in built : self.modules[n].cls = "ConvEncoder"
           /\ phase = "built" =>
                 built = (IF args.share_encoder THEN {"encoder"}
                          ELSE {"actor_encoder", "critic_encoder"})

C1_Witness ==
    /\ phase = "failed" /\ err = ErrObsShape
    /\ ~args.obs_shape.isint /\ Len(args.obs_shape.dims) = 2
    /\ self.modules = NoModules

\* C2: a mode outside the three allowed ones fails with the unsupported-forward-mode
\* error, which reports the mode and the allowed modes, and runs no encoder and
\* no head; an allowed mode calls the method of that name on the inputs.
C2_ForwardMode ==
    last.mode # "none" =>
        IF last.mode \notin {"compute_actor", "compute_critic", "compute_actor_critic"}
        THEN /\ last.err = ErrMode
             /\ last.msg = [mode |-> last.mode,
                            allowed |-> <<"compute_actor", "compute_critic",
                                          "compute_actor_critic">>]
             /\ last.trace = <<>>
             /\ last.called = "none"
        ELSE /\ last.err # ErrMode
             /\ last.called = last.mode
             /\ last.trace # <<>> /\ last.trace[1].input = last.x
             /\ LET r == CASE last.mode = "compute_actor" -> compute_actor(self, last.x)
                           [] last.mode = "compute_critic" -> compute_critic(self, last.x)
                           [] OTHER -> compute_actor_critic(self, last.x)
                IN last.err = r.err /\ last.result = r.result /\ last.trace = r.trace

C2_Witness ==
    /\ last.mode = "compute_q" /\ last.err = ErrMode /\ last.trace = <<>>

\* C3: in a compute_actor_critic call with a shared encoder the encoder runs
\* exactly once and its embedding is the input of both heads; with separate
\* encoders each runs exactly once and each head gets its own encoder's embedding.
C3_EncoderRunOnce ==
    last.called = "compute_actor_critic" =>
        LET t == last.trace
            heads == {i \in DOMAIN t : t[i].mod \in HeadNames}
            runs(n) == {i \in DOMAIN t : t[i].mod = n}
            emb(n) == Tensor(<<last.batch, LastOf(self.modules[n].out)>>, <<n>> \o last.x.val)
        IN /\ \A i \in DOMAIN t : t[i].mod \in EncoderNames => t[i].input = last.x
           /\ last.err = OK => Count(t, "actor_head") = 1 /\ Count(t, "critic_head") = 1
           /\ IF self.share_encoder
              THEN /\ Count(t, "encoder") = 1
                   /\ Count(t, "actor_encoder") = 0 /\ Count(t, "critic_encoder") = 0
                   /\ \A i \in heads : t[i].input = emb("encoder")
              ELSE /\ Count(t, "encoder") = 0
                   /\ Count(t, "actor_encoder") = 1 /\ Count(t, "critic_encoder") = 1
                   /\ \A i \in runs("actor_head") : t[i].input = emb("actor_encoder")
                   /\ \A i \in runs("critic_head") : t[i].input = emb("critic_encoder")

C3_Witness ==
    /\ last.called = "compute_actor_critic" /\ last.err = OK
    /\ self.share_encoder
    /\ Count(last.trace, "encoder") = 1

\* C4: compute_actor_critic(x) returns the logit of compute_actor(x) and the
\* value of compute_critic(x), for every configuration and input.
C4_ActorCriticAgrees ==
    /\ last.called = "compute_actor_critic" /\ last.err = OK =>
          LET a == compute_actor(self, last.x)
              c == compute_critic(self, last.x)
          IN /\ a.err = OK /\ last.result.logit = a.result.logit
             /\ c.err = OK /\ last.result.value = c.result.value
    /\ \A p \in {<<first, last>>, <<last, first>>} :
          (/\ p[1].called = "compute_actor_critic" /\ p[1].err = OK
           /\ p[2].err = OK /\ p[2].batch = p[1].batch) =>
              /\ p[2].called = "compute_actor" => p[1].result.logit = p[2].result.logit
              /\ p[2].called = "compute_critic" => p[1].result.value = p[2].result.value

C4_Witness ==
    /\ first.called = "compute_actor" /\ first.err = OK
    /\ last.called = "compute_actor_critic" /\ last.err = OK
    /\ first.batch = last.batch
    /\ ~self.share_encoder
    /\ last.result.logit = first.result.logit

\* the shapes the configured action space asks of the action parameters
ActionDimsOK(logit, B) ==
    LET a == squeeze(args.action_shape)
    IN IF args.continuous
       THEN /\ logit.kind = "list" /\ Len(logit.items) = 2
            /\ \A i \in 1..2 : logit.items[i].shape = <<B, a.dims[1]>>
       ELSE IF a.isint
       THEN logit.kind = "tensor" /\ logit.items[1].shape = <<B, a.dims[1]>>
       ELSE /\ logit.kind = "list" /\ Len(logit.items) = Len(a.dims)
            /\ \A i \in 1..Len(a.dims) : logit.items[i].shape = <<B, a.dims[i]>>

EncoderWidth == LastOf(args.encoder_hidden_size_list)

\* C5 as stated: on any model whose construction succeeded, compute_actor on
\* a batch of B observations returns action parameters whose last dimension is
\* the action-space size (one tensor per sub-dimension for a tuple action space).
C5_ActorReturnsActionSize ==
    last.called = "compute_actor" =>
        /\ last.err = OK
        /\ ActionDimsOK(last.result.logit, last.batch)

\* C5: whenever compute_actor returns, the action parameters have the
\* action-space size as their last dimension (one tensor per sub-dimension for a
\* tuple action space); it raises the framework's shape error instead when the
\* encoder's output width differs from actor_head_hidden_size.
C5_ActorActionSizeWhenReturns ==
    last.called = "compute_actor" =>
        /\ EncoderWidth # args.actor_head_hidden_size => last.err = ErrShape
        /\ last.err = OK =>
              /\ "logit" \in last.result.keys
              /\ ActionDimsOK(last.result.logit, last.batch)

C5_Witness ==
    /\ last.called = "compute_actor" /\ last.err = OK
    /\ last.batch = 2
    /\ self.multi_head
    /\ Len(last.result.logit.items) = 2

\* C6 as stated: on any model whose construction succeeded, compute_critic on
\* a batch of B observations returns the single key 'value', the critic head's
\* prediction, a 1-D tensor of length B.
C6_CriticReturnsValue ==
    last.called = "compute_critic" =>
        /\ last.err = OK
        /\ last.result.keys = {"value"}
        /\ last.result.value.kind = "tensor"
        /\ last.result.value.items[1].shape = <<last.batch>>

\* C6: whenever compute_critic returns, the result has the single key 'value',
\* holding the critic head's prediction as a 1-D tensor of length B; it raises
\* the framework's shape error instead when the encoder's output width differs
\* from critic_head_hidden_size.
C6_CriticValueWhenReturns ==
    last.called = "compute_critic" =>
        /\ EncoderWidth # args.critic_head_hidden_size => last.err = ErrShape
        /\ last.err = OK =>
              /\ last.result.keys = {"value"}
              /\ last.result.value.kind = "tensor"
              /\ last.result.value.items[1].shape = <<last.batch>>
              /\ SubSeq(last.result.value.items[1].val, 1, 2) = <<"critic_head", "pred">>

C6_Witness ==
    /\ last.called = "compute_critic" /\ last.err = OK
    /\ last.batch = 2
    /\ last.result.value.items[1].shape = <<2>>

\* C7: with continuous=True compute_actor returns the single key 'logit' holding
\* the list [mu, sigma] of the actor head, and compute_actor_critic returns the
\* same list under 'logit'; with continuous=False the logit is the head's logit.
C7_ContinuousLogit ==
    (last.called \in {"compute_actor", "compute_actor_critic"} /\ last.err = OK) =>
        LET t == last.trace
            i == CHOOSE k \in DOMAIN t : t[k].mod = "actor_head"
            head == HeadForward(self.modules.actor_head, "actor_head", t[i].input).dict
            logit == last.result.logit
        IN /\ last.called = "compute_actor" => last.result.keys = {"logit"}
           /\ last.called = "compute_actor_critic" => last.result.keys = {"logit", "value"}
           /\ IF self.continuous
              THEN /\ logit.kind = "list" /\ Len(logit.items) = 2
                   /\ logit.items[1] = head.mu.items[1]
                   /\ logit.items[2] = head.sigma.items[1]
                   /\ logit.items[1].val[2] = "mu" /\ logit.items[2].val[2] = "sigma"
              ELSE logit = head.logit /\ head.keys = {"logit"}

C7_Witness ==
    /\ last.called = "compute_actor" /\ last.err = OK
    /\ self.continuous
    /\ last.result.keys = {"logit"} /\ Len(last.result.logit.items) = 2

\* C10: forward calls leave the model's configuration as construction made it,
\* and a call's result does not depend on the calls made before it: repeating
\* the first call's mode and input gives the first call's result.
C10_ForwardKeepsConfiguration ==
    phase = "built" =>
        /\ self = VACInit(args).self
        /\ self.mode = <<"compute_actor", "compute_critic", "compute_actor_critic">>
        /\ (last.mode = first.mode /\ last.x = first.x) =>
              last.err = first.err /\ last.result = first.result

C10_Witness ==
    /\ phase = "built"
    /\ first.called = "compute_critic" /\ last.called = "compute_actor_critic"
    /\ self = VACInit(args).self
====
